---- MODULE Spec2Model ----
(***************************************************************************)
(* Zero-shot portfolio selection: greedy forward selection with either the *)
(* sequential or the ray backend, backward pruning, and the k-fold         *)
(* cross-validation driver (autogluon_zeroshot/simulation/                 *)
(* config_generator.py).                                                   *)
(*                                                                         *)
(* The scorer is an opaque deterministic oracle.  Its value on a list is   *)
(* fixed the first time the list is scored and is remembered in `scores`,  *)
(* so every later call with the same scorer and the same set of list       *)
(* elements returns the same value.  The seeded shuffle of KFold is        *)
(* treated the same way in `shuffles`.                                     *)
(***************************************************************************)
EXTENDS Integers, Sequences, FiniteSets, TLC

VARIABLES
    pc,                 \* position of the driver
    entry,              \* the public method the caller invoked: select, prune, run
    calls,              \* number of public calls made on the object so far
    result,             \* the value returned to the caller
    all_configs,        \* ZeroshotConfigGenerator.all_configs (candidate pool)
    backend,            \* ZeroshotConfigGenerator.backend
    config_scorer,      \* ZeroshotConfigGenerator.config_scorer, named by its datasets
    score_values,       \* the values the scorer can return
    scores,             \* the oracle's answers given so far
    num_zeroshot,       \* select_zeroshot_configs argument
    removal_stage,      \* select_zeroshot_configs argument
    removal_threshold,  \* select_zeroshot_configs / prune_zeroshot_configs argument
    arg_configs,        \* the portfolio the caller passed to the public method
    zeroshot_configs,   \* the portfolio being built or pruned
    iteration,          \* select_zeroshot_configs local
    selection,          \* what each selector returns on the latest iteration's inputs
    prune_arg,          \* the portfolio prune_zeroshot_configs was called with
    best_score,         \* prune_zeroshot_configs local
    finished_removal,   \* prune_zeroshot_configs local
    round_start,        \* the latest pruning round: its portfolio, best_score, removal
    cv,                 \* the fields of ZeroshotConfigGeneratorCV
    shuffles,           \* the permutations the seeded generator has produced
    fold,               \* run: the index i of the fold being fitted
    fold_results,       \* run: fold_results
    runs                \* the fold_results of the completed runs

objVars == <<all_configs, backend, config_scorer, score_values>>
argVars == <<num_zeroshot, removal_stage, removal_threshold, arg_configs>>
selVars == <<iteration, selection>>
pruneVars == <<prune_arg, best_score, finished_removal, round_start>>
cvVars == <<cv, shuffles, fold, fold_results, runs>>

vars == <<pc, entry, calls, result, objVars, scores, argVars, zeroshot_configs,
          selVars, pruneVars, cvVars>>

----------------------------------------------------------------------------
(* Bounds of the model *)

\* candidate identifiers; pools are prefixes of this sequence
ConfigNames == <<"A", "B", "C">>

\* largest requested portfolio size
MaxNumZeroshot == 3

\* public calls made on one object
MaxCalls == 2

\* Python's None
None == "None"

\* initial best_score of _select_sequential
InitialBestScore == 999999999

\* largest ordinary score
MaxScore == 1

\* the scorers of the model: those with ordinary scores only, and those whose
\* scores lie around the initial best_score of _select_sequential
ScoreRanges == {0..MaxScore, (InitialBestScore - 1)..(InitialBestScore + 1)}

Thresholds == {0, 1}

Backends == {"ray", "sequential"}

\* the datasets of a scorer handed directly to ZeroshotConfigGenerator
GeneratorDatasets == {0}

----------------------------------------------------------------------------
(* Lists *)

Range(s) == {s[i] : i \in DOMAIN s}

Prefixes(s) == {SubSeq(s, 1, n) : n \in 0..Len(s)}

NoDuplicates(s) == \A i, j \in DOMAIN s : i # j => s[i] # s[j]

\* list.remove(x): drops the first occurrence
ListRemove(s, x) ==
    LET i == CHOOSE k \in DOMAIN s : s[k] = x /\ \A j \in 1..(k - 1) : s[j] # x
    IN  SubSeq(s, 1, i - 1) \o SubSeq(s, i + 1, Len(s))

\* [c for c in s if c != x]
Without(s, x) == SelectSeq(s, LAMBDA c : c # x)

\* [c for c in s if c not in t]
NotIn(s, t) == SelectSeq(s, LAMBDA c : c \notin Range(t))

----------------------------------------------------------------------------
(* The scorer oracle *)

ScoreKey(scorer, configs) == <<scorer, Range(configs)>>

\* every way the oracle can answer the calls `keys`, given its answers `m` so far
Answers(m, keys) == {m @@ e : e \in [keys \ DOMAIN m -> score_values]}

\* config_scorer.score(configs)
score(m, scorer, configs) == m[ScoreKey(scorer, configs)]

----------------------------------------------------------------------------
(* The two selectors *)

RECURSIVE select_sequential_loop(_, _, _, _, _, _, _)
\* the for loop of _select_sequential from its i-th candidate on
select_sequential_loop(m, scorer, configs, prior_configs, i, best_next_config, best) ==
    IF i > Len(configs) THEN <<best_next_config, best>>
    ELSE LET config == configs[i]
             config_selected == prior_configs \o <<config>>
             config_score == score(m, scorer, config_selected)
         IN  IF config_score < best
             THEN select_sequential_loop(m, scorer, configs, prior_configs, i + 1,
                                         config, config_score)
             ELSE select_sequential_loop(m, scorer, configs, prior_configs, i + 1,
                                         best_next_config, best)

\* _select_sequential: (best_next_config, best_score)
select_sequential(m, scorer, configs, prior_configs) ==
    select_sequential_loop(m, scorer, configs, prior_configs, 1, None, InitialBestScore)

\* score_config_ray: one remote task
score_config_ray(m, scorer, existing_configs, new_config) ==
    score(m, scorer, existing_configs \o <<new_config>>)

\* min(result)
ListMin(s) == CHOOSE x \in Range(s) : \A y \in Range(s) : x <= y

\* result.index(x): the first position holding x
ListIndex(s, x) == CHOOSE k \in DOMAIN s : s[k] = x /\ \A j \in 1..(k - 1) : s[j] # x

\* _select_ray: (best_next_config, best_score); ray.get returns the results in
\* submission order
select_ray(m, scorer, configs, prior_configs) ==
    LET ray_results == [i \in 1..Len(configs) |->
                          score_config_ray(m, scorer, prior_configs, configs[i])]
        result_idx_min == ListIndex(ray_results, ListMin(ray_results))
    IN  <<configs[result_idx_min], ray_results[result_idx_min]>>

\* the selector select_zeroshot_configs picks for a backend
selector(b, m, scorer, configs, prior_configs) ==
    IF b = "ray" THEN select_ray(m, scorer, configs, prior_configs)
    ELSE select_sequential(m, scorer, configs, prior_configs)

----------------------------------------------------------------------------
(* One pruning round *)

RECURSIVE prune_round_loop_highest(_, _, _, _, _, _, _)
\* variant: the comparisons are turned round (a higher score taken for better)
prune_round_loop_highest(m, scorer, configs, threshold, i, best_remove_config, best) ==
    IF i > Len(configs) THEN <<best_remove_config, best>>
    ELSE LET config == configs[i]
             config_score == score(m, scorer, Without(configs, config))
         IN  IF \/ best_remove_config = None /\ config_score >= best + threshold
                \/ best_remove_config # None /\ config_score >= best
             THEN prune_round_loop_highest(m, scorer, configs, threshold, i + 1,
                                           config, config_score)
             ELSE prune_round_loop_highest(m, scorer, configs, threshold, i + 1,
                                           best_remove_config, best)

RECURSIVE prune_round_loop_slack(_, _, _, _, _, _, _)
\* variant: the threshold is granted to every candidate of the round
prune_round_loop_slack(m, scorer, configs, threshold, i, best_remove_config, best) ==
    IF i > Len(configs) THEN <<best_remove_config, best>>
    ELSE LET config == configs[i]
             config_score == score(m, scorer, Without(configs, config))
         IN  IF config_score <= best + threshold
             THEN prune_round_loop_slack(m, scorer, configs, threshold, i + 1,
                                         config, config_score)
             ELSE prune_round_loop_slack(m, scorer, configs, threshold, i + 1,
                                         best_remove_config, best)

RECURSIVE prune_round_loop(_, _, _, _, _, _, _)
\* the for loop of one round of prune_zeroshot_configs from the i-th
\* configuration on: (best_remove_config, best_score)
prune_round_loop(m, scorer, configs, threshold, i, best_remove_config, best) ==
    IF i > Len(configs) THEN <<best_remove_config, best>>
    ELSE LET config == configs[i]
             config_selected == Without(configs, config)
             config_score == score(m, scorer, config_selected)
         IN  IF best_remove_config = None
             THEN IF config_score <= best + threshold
                  THEN prune_round_loop(m, scorer, configs, threshold, i + 1,
                                        config, config_score)
                  ELSE prune_round_loop(m, scorer, configs, threshold, i + 1,
                                        best_remove_config, best)
             ELSE IF config_score <= best
                  THEN prune_round_loop(m, scorer, configs, threshold, i + 1,
                                        config, config_score)
                  ELSE prune_round_loop(m, scorer, configs, threshold, i + 1,
                                        best_remove_config, best)

\* variant: best_score is not updated by the round
prune_round_stale(m, scorer, configs, threshold, best) ==
    <<prune_round_loop(m, scorer, configs, threshold, 1, None, best)[1], best>>

\* the body of the while loop of prune_zeroshot_configs, up to the removal
prune_round(m, scorer, configs, threshold, best) ==
    prune_round_loop(m, scorer, configs, threshold, 1, None, best)

\* the lists one round scores
RemovalKeys(scorer, configs) ==
    {ScoreKey(scorer, Without(configs, c)) : c \in Range(configs)}

\* the lists one forward iteration scores
CandidateKeys(scorer, configs, prior_configs) ==
    {ScoreKey(scorer, prior_configs \o <<c>>) : c \in Range(configs)}

----------------------------------------------------------------------------
(* ZeroshotConfigGenerator *)

Pools == Prefixes(ConfigNames)

\* portfolios a caller passes in: duplicate-free lists of the pool's identifiers
InputPortfolios == Prefixes(all_configs)

NoSelection == [sequential |-> <<None, InitialBestScore>>,
                ray |-> <<None, InitialBestScore>>, called |-> FALSE]

NoRound == [configs |-> <<>>, best_score |-> 0, removed |-> None, played |-> FALSE]

NoCV == [n_splits |-> 0, configs |-> <<>>, unique_datasets_fold |-> <<>>,
         unique_datasets_map |-> <<>>, unique_datasets |-> <<>>,
         dataset_parent_to_fold_map |-> <<>>]

\* nothing called yet
Idle ==
    /\ entry = "none"
    /\ calls = 0
    /\ result = <<>>
    /\ scores = <<>>
    /\ num_zeroshot = 0
    /\ removal_stage = FALSE
    /\ removal_threshold = 0
    /\ arg_configs = <<>>
    /\ zeroshot_configs = <<>>
    /\ iteration = 0
    /\ selection = NoSelection
    /\ prune_arg = <<>>
    /\ best_score = 0
    /\ finished_removal = FALSE
    /\ round_start = NoRound
    /\ shuffles = <<>>
    /\ fold = 0
    /\ fold_results = <<>>
    /\ runs = <<>>

\* ZeroshotConfigGenerator.__init__
Init ==
    /\ pc = "ready"
    /\ all_configs \in Pools
    /\ backend \in Backends
    /\ config_scorer = GeneratorDatasets
    /\ score_values \in ScoreRanges
    /\ cv = NoCV
    /\ Idle

\* variant: one iteration too many
LoopContinuesInclusive(configs, k) == Len(configs) <= k

\* the while condition of select_zeroshot_configs
LoopContinues(configs, k) == Len(configs) < k

\* valid_configs
ValidConfigs(pool, configs) == NotIn(pool, configs)

\* select_zeroshot_configs, up to the while loop
SelectEnter(k, prior, stage, threshold) ==
    /\ num_zeroshot' = k
    /\ arg_configs' = prior
    /\ zeroshot_configs' = prior
    /\ removal_stage' = stage
    /\ removal_threshold' = threshold
    /\ iteration' = 0
    /\ selection' = NoSelection
    /\ pc' = "select"

\* the caller invokes select_zeroshot_configs
SelectCall ==
    /\ pc = "ready"
    /\ calls = 0
    /\ \E k \in -1..MaxNumZeroshot, prior \in InputPortfolios,
          stage \in BOOLEAN, threshold \in Thresholds :
          SelectEnter(k, prior, stage, threshold)
    /\ entry' = "select"
    /\ calls' = calls + 1
    /\ UNCHANGED <<result, objVars, scores, pruneVars, cvVars>>

\* one iteration of the while loop that appends a configuration
SelectIteration ==
    /\ pc = "select"
    /\ LoopContinues(zeroshot_configs, num_zeroshot)
    /\ LET valid_configs == ValidConfigs(all_configs, zeroshot_configs)
       IN  /\ valid_configs # <<>>
           /\ \E m \in Answers(scores, CandidateKeys(config_scorer, valid_configs,
                                                     zeroshot_configs)) :
                 /\ scores' = m
                 /\ selection' =
                      [sequential |-> select_sequential(m, config_scorer, valid_configs,
                                                        zeroshot_configs),
                       ray |-> select_ray(m, config_scorer, valid_configs,
                                          zeroshot_configs),
                       called |-> TRUE]
                 /\ zeroshot_configs' =
                      Append(zeroshot_configs,
                             selector(backend, m, config_scorer, valid_configs,
                                      zeroshot_configs)[1])
    /\ iteration' = iteration + 1
    /\ UNCHANGED <<pc, entry, calls, result, objVars, argVars, pruneVars, cvVars>>

\* prune_zeroshot_configs, up to the while loop
PruneEnter(configs) ==
    /\ \E m \in Answers(scores, {ScoreKey(config_scorer, configs)}) :
          /\ scores' = m
          /\ best_score' = score(m, config_scorer, configs)
    /\ prune_arg' = configs
    /\ zeroshot_configs' = configs
    /\ finished_removal' = FALSE
    /\ round_start' = NoRound
    /\ pc' = "prune"

\* the while loop ends (size reached, or the break on an empty valid_configs);
\* then the removal stage starts, or the portfolio is returned
SelectLoopEnd ==
    /\ pc = "select"
    /\ \/ /\ ~LoopContinues(zeroshot_configs, num_zeroshot)
          /\ iteration' = iteration
       \/ /\ LoopContinues(zeroshot_configs, num_zeroshot)
          /\ ValidConfigs(all_configs, zeroshot_configs) = <<>>
          /\ iteration' = iteration + 1
    /\ \/ /\ removal_stage
          /\ PruneEnter(zeroshot_configs)
          /\ UNCHANGED result
       \/ /\ ~removal_stage
          /\ result' = zeroshot_configs
          /\ pc' = IF entry = "run" THEN "run_fold" ELSE "returned"
          /\ UNCHANGED <<scores, zeroshot_configs, pruneVars>>
    /\ UNCHANGED <<entry, calls, objVars, argVars, selection, cvVars>>

\* the caller invokes prune_zeroshot_configs: on a fresh portfolio, or again on
\* the portfolio a pruning returned
PruneCall ==
    /\ \/ /\ pc = "ready"
          /\ calls = 0
          /\ \E prior \in InputPortfolios, threshold \in Thresholds :
                /\ arg_configs' = prior
                /\ removal_threshold' = threshold
       \/ /\ pc = "returned"
          /\ calls < MaxCalls
          /\ entry = "prune"
          /\ arg_configs' = result
          /\ removal_threshold' = removal_threshold
    /\ PruneEnter(arg_configs')
    /\ entry' = "prune"
    /\ calls' = calls + 1
    /\ UNCHANGED <<result, objVars, num_zeroshot, removal_stage, selVars, cvVars>>

\* one round of the while loop of prune_zeroshot_configs
PruneRound ==
    /\ pc = "prune"
    /\ ~finished_removal
    /\ \E m \in Answers(scores, RemovalKeys(config_scorer, zeroshot_configs)) :
          LET r == prune_round(m, config_scorer, zeroshot_configs, removal_threshold,
                               best_score)
              best_remove_config == r[1]
          IN  /\ scores' = m
              /\ best_score' = r[2]
              /\ round_start' = [configs |-> zeroshot_configs, best_score |-> best_score,
                                 removed |-> best_remove_config, played |-> TRUE]
              /\ IF best_remove_config # None
                 THEN /\ zeroshot_configs' = ListRemove(zeroshot_configs, best_remove_config)
                      /\ finished_removal' = FALSE
                 ELSE /\ zeroshot_configs' = zeroshot_configs
                      /\ finished_removal' = TRUE
    /\ prune_arg' = prune_arg
    /\ UNCHANGED <<pc, entry, calls, result, objVars, argVars, selVars, cvVars>>

\* prune_zeroshot_configs returns; select_zeroshot_configs returns what it returned
PruneReturn ==
    /\ pc = "prune"
    /\ finished_removal
    /\ result' = zeroshot_configs
    /\ pc' = "returned"
    /\ UNCHANGED <<entry, calls, objVars, scores, argVars, zeroshot_configs, selVars,
                   pruneVars, cvVars>>

Next ==
    \/ SelectCall
    \/ SelectIteration
    \/ SelectLoopEnd
    \/ PruneCall
    \/ PruneRound
    \/ PruneReturn

Spec == Init /\ [][Next]_vars

----------------------------------------------------------------------------
(* ZeroshotConfigGeneratorCV *)

\* most parent datasets
MaxParents == 4

\* most dataset-folds of one parent dataset
MaxFolds == 2

\* largest n_splits
MaxSplits == 3

\* KFold(random_state=0)
RandomState == 0

\* the portfolio size run_fold asks for
RunFoldNumZeroshot == 10

\* the scorers of the cross-validation runs: constant ones, below the initial
\* best_score of _select_sequential and at it
CVScoreRanges == {{0}, {InitialBestScore}}

\* zeroshot_simulator_context.get_configs()
CVPools == {<<"A">>}

RECURSIVE SortedList(_)
\* sorted(list(S)) for a set S of numbers
SortedList(S) ==
    IF S = {} THEN <<>>
    ELSE LET least == CHOOSE x \in S : \A y \in S : x <= y
         IN  <<least>> \o SortedList(S \ {least})

\* sorted(s) for a list s of numbers
SortedSeq(s) == SortSeq(s, LAMBDA a, b : a < b)

Reverse(s) == [i \in 1..Len(s) |-> s[Len(s) + 1 - i]]

\* the dataset-fold identifier of fold f of parent p
DatasetFold(p, f) == p * 10 + f

\* config_scorer.datasets: every fold of every parent once, in either order
DatasetLists(parents, folds) ==
    LET ascending == SortedList({DatasetFold(p, f) : p \in 1..parents, f \in 1..folds})
    IN  {ascending, Reverse(ascending)}

\* zeroshot_simulator_context.dataset_name_to_tid_dict
DatasetNameToTid(datasets) == [d \in Range(datasets) |-> d \div 10]

\* the loop that fills unique_datasets
UniqueParents(datasets, map) == {map[d] : d \in Range(datasets)}

\* the loop that fills dataset_parent_to_fold_map, and the sort of its lists
ParentToFoldMap(datasets, map) ==
    [p \in UniqueParents(datasets, map) |->
        SortedSeq(SelectSeq(datasets, LAMBDA d : map[d] = p))]

\* the fields ZeroshotConfigGeneratorCV.__init__ sets
NewCV(n_splits, configs, datasets, map) ==
    [n_splits |-> n_splits,
     configs |-> configs,
     unique_datasets_fold |-> datasets,
     unique_datasets_map |-> map,
     unique_datasets |-> SortedList(UniqueParents(datasets, map)),
     dataset_parent_to_fold_map |-> ParentToFoldMap(datasets, map)]

\* ZeroshotConfigGeneratorCV.__init__
InitCV ==
    /\ pc = "ready"
    /\ \E n_splits \in 2..MaxSplits, configs \in CVPools,
          parents \in 1..MaxParents, folds \in 1..MaxFolds :
          \E datasets \in DatasetLists(parents, folds) :
             cv = NewCV(n_splits, configs, datasets, DatasetNameToTid(datasets))
    /\ backend \in Backends
    /\ score_values \in CVScoreRanges
    /\ all_configs = <<>>
    /\ config_scorer = {}
    /\ Idle

\* the shuffle of a generator seeded with random_state: the same seed and
\* length give the same permutation
ShuffleKey(random_state, n) == <<random_state, n>>

ShuffleAnswers(m, key) ==
    IF key \in DOMAIN m THEN {m}
    ELSE {m @@ (key :> p) : p \in Permutations(1..key[2])}

\* KFold: the first n % k folds hold n // k + 1 samples, the others n // k
FoldSize(n, k, j) == (n \div k) + (IF j <= n % k THEN 1 ELSE 0)

\* the number of samples in the folds before fold j
FoldStart(n, k, j) == (j - 1) * (n \div k) + (IF j - 1 <= n % k THEN j - 1 ELSE n % k)

\* KFold.split, fold j: the test indices are a slice of the shuffled indices;
\* both index arrays come back ascending
test_index(perm, n, k, j) ==
    SortedList({perm[q] : q \in (FoldStart(n, k, j) + 1)..(FoldStart(n, k, j) + FoldSize(n, k, j))})

train_index(perm, n, k, j) ==
    SortedList((1..n) \ Range(test_index(perm, n, k, j)))

\* KFold.split raises when there are fewer samples than splits
SplitRaises(n, k) == k > n

\* self.unique_datasets[index]
Take(array, index) == [q \in 1..Len(index) |-> array[index[q]]]

RECURSIVE ExpandFoldsFirst(_, _)
\* variant: only the first dataset-fold of each parent is taken
ExpandFoldsFirst(X, map) ==
    IF X = <<>> THEN <<>>
    ELSE <<map[Head(X)][1]>> \o ExpandFoldsFirst(Tail(X), map)

RECURSIVE ExpandFolds(_, _)
\* for d in X: X_fold += self.dataset_parent_to_fold_map[d]
ExpandFolds(X, map) ==
    IF X = <<>> THEN <<>>
    ELSE map[Head(X)] \o ExpandFolds(Tail(X), map)

\* the permutation this object's splitter produces
Shuffled == shuffles[ShuffleKey(RandomState, Len(cv.unique_datasets))]

\* X_train and X_test of the i-th split
X_train(i) ==
    Take(cv.unique_datasets,
         train_index(Shuffled, Len(cv.unique_datasets), cv.n_splits, i))

X_test(i) ==
    Take(cv.unique_datasets,
         test_index(Shuffled, Len(cv.unique_datasets), cv.n_splits, i))

X_train_fold(i) == ExpandFolds(X_train(i), cv.dataset_parent_to_fold_map)

X_test_fold(i) == ExpandFolds(X_test(i), cv.dataset_parent_to_fold_map)

\* the caller invokes run; the splitter shuffles, or raises
RunCall ==
    /\ pc = "ready"
    /\ calls < MaxCalls
    /\ entry' = "run"
    /\ calls' = calls + 1
    /\ fold_results' = <<>>
    /\ fold' = 0
    /\ IF SplitRaises(Len(cv.unique_datasets), cv.n_splits)
       THEN /\ pc' = "raised"
            /\ shuffles' = shuffles
       ELSE /\ pc' = "run"
            /\ shuffles' \in ShuffleAnswers(shuffles,
                                ShuffleKey(RandomState, Len(cv.unique_datasets)))
    /\ UNCHANGED <<result, objVars, scores, argVars, zeroshot_configs, selVars,
                   pruneVars, cv, runs>>

\* the next split of the for loop: run_fold builds the train scorer and the
\* generator and calls select_zeroshot_configs
RunFold ==
    /\ pc = "run"
    /\ fold < cv.n_splits
    /\ config_scorer' = Range(X_train_fold(fold + 1))
    /\ all_configs' = cv.configs
    /\ SelectEnter(RunFoldNumZeroshot, <<>>, FALSE, 0)
    /\ UNCHANGED <<entry, calls, result, backend, score_values, scores, pruneVars,
                   cvVars>>

\* run_fold scores the portfolio with the test scorer and returns; run appends
\* the fold result record
RunFoldEnd ==
    /\ pc = "run_fold"
    /\ LET i == fold + 1
           config_scorer_test == Range(X_test_fold(i))
       IN  \E m \in Answers(scores, {ScoreKey(config_scorer_test, result)}) :
              /\ scores' = m
              /\ fold_results' =
                   Append(fold_results,
                          [fold |-> i,
                           X_train |-> X_train(i),
                           X_test |-> X_test(i),
                           X_train_fold |-> X_train_fold(i),
                           X_test_fold |-> X_test_fold(i),
                           score |-> score(m, config_scorer_test, result),
                           selected_configs |-> result])
    /\ fold' = fold + 1
    /\ pc' = "run"
    /\ UNCHANGED <<entry, calls, result, objVars, argVars, zeroshot_configs, selVars,
                   pruneVars, cv, shuffles, runs>>

\* the for loop is over: run returns fold_results
RunReturn ==
    /\ pc = "run"
    /\ fold = cv.n_splits
    /\ runs' = Append(runs, fold_results)
    /\ pc' = "ready"
    /\ UNCHANGED <<entry, calls, result, objVars, scores, argVars, zeroshot_configs,
                   selVars, pruneVars, cv, shuffles, fold, fold_results>>

NextCV ==
    \/ RunCall
    \/ RunFold
    \/ SelectIteration
    \/ SelectLoopEnd
    \/ RunFoldEnd
    \/ RunReturn

SpecCV == InitCV /\ [][NextCV]_vars

----------------------------------------------------------------------------
(* Properties *)

\* the score the oracle has given for a list
ScoreOf(configs) == score(scores, config_scorer, configs)

\* C1: at every forward iteration the sequential and the ray selector return
\* the same (config, score) pair, so both backends build the same portfolio.
C1_BackendsAgree ==
    selection.called => selection.sequential = selection.ray

\* C2: the configuration a forward iteration appends is the element of
\* remaining = pool minus portfolio with the minimal score(portfolio + [c]),
\* the first such element in pool order.
C2_AppendsFirstMinimum ==
    (pc = "select" /\ selection.called) =>
        LET prior == SubSeq(zeroshot_configs, 1, Len(zeroshot_configs) - 1)
            appended == zeroshot_configs[Len(zeroshot_configs)]
            remaining == NotIn(all_configs, prior)
        IN  \E i \in DOMAIN remaining :
               /\ remaining[i] = appended
               /\ \A j \in DOMAIN remaining :
                     ScoreOf(prior \o <<remaining[j]>>) >= ScoreOf(prior \o <<appended>>)
               /\ \A j \in 1..(i - 1) :
                     ScoreOf(prior \o <<remaining[j]>>) > ScoreOf(prior \o <<appended>>)

\* C3: started from an empty portfolio, the forward phase never holds a
\* duplicate element in the portfolio.
C3_NoDuplicates ==
    (entry = "select" /\ arg_configs = <<>> /\ pc = "select") =>
        NoDuplicates(zeroshot_configs)

\* C4: with K > N, an empty prior portfolio and pruning disabled, the returned
\* portfolio has exactly N elements: every pool element once.
C4_ReturnsWholePool ==
    (pc = "returned" /\ entry = "select" /\ arg_configs = <<>> /\ ~removal_stage
        /\ num_zeroshot > Len(all_configs)) =>
        (Len(result) = Len(all_configs) /\ Range(result) = Range(all_configs))

\* C5: in every pruning round, with base_score the score of the portfolio at
\* the start of the round: if a configuration is removed, the portfolio after
\* the removal scores at most base_score + removal_threshold; and if no single
\* removal scores within that limit, nothing is removed and the portfolio is
\* returned unchanged.
C5_RemovalWithinThreshold ==
    round_start.played =>
        LET base_score == ScoreOf(round_start.configs)
            limit == base_score + removal_threshold
        IN  /\ zeroshot_configs # round_start.configs =>
                  ScoreOf(zeroshot_configs) <= limit
            /\ (\A c \in Range(round_start.configs) :
                    ScoreOf(Without(round_start.configs, c)) > limit) =>
                  /\ finished_removal
                  /\ zeroshot_configs = round_start.configs
                  /\ pc = "returned" => result = round_start.configs

\* C6: pruning an already pruned portfolio again removes nothing:
\* prune(prune(P)) = prune(P).
C6_PruneIdempotent ==
    (pc = "returned" /\ entry = "prune" /\ calls >= 2) => result = arg_configs

C6_Witness ==
    /\ pc = "returned"
    /\ entry = "prune"
    /\ calls = 2
    /\ result # <<>>
    /\ \E k \in DOMAIN scores : Range(result) \subseteq k[2] /\ Range(result) # k[2]

\* the scorer scores every portfolio with B strictly worse than the same without B
BScoresWorse ==
    \A k \in DOMAIN scores :
        ("B" \in k[2] /\ <<k[1], k[2] \ {"B"}>> \in DOMAIN scores) =>
            scores[k] > scores[<<k[1], k[2] \ {"B"}>>]

C7Scenario ==
    /\ pc = "returned"
    /\ entry = "select"
    /\ all_configs = <<"A", "B", "C">>
    /\ num_zeroshot = 3
    /\ arg_configs = <<>>
    /\ removal_stage
    /\ removal_threshold = 0
    /\ BScoresWorse

C9Case ==
    /\ pc = "returned"
    /\ entry = "select"
    /\ (all_configs = <<>> \/ num_zeroshot <= 0)

\* C9 as stated: an empty pool or num_zeroshot <= 0 returns an empty portfolio
\* and no forward iteration is performed.
C9_EmptyPortfolio ==
    C9Case => (result = <<>> /\ ~selection.called)

\* C9 amended: an empty pool or num_zeroshot <= 0 performs no forward
\* iteration and returns the prior portfolio (pruned when the removal stage
\* is on), which is the empty portfolio when no prior portfolio was passed.
C9_PriorPortfolioOnly ==
    C9Case =>
        /\ ~selection.called
        /\ arg_configs = <<>> => result = <<>>
        /\ ~removal_stage => result = arg_configs
        /\ Range(result) \subseteq Range(arg_configs)

C9_Witness ==
    C9Case /\ all_configs # <<>> /\ arg_configs = <<>> /\ result = <<>>

\* C10: in a round where some single removal scores within base_score +
\* removal_threshold, a configuration is removed and it is one whose removal
\* scores lowest among all single removals of the round's portfolio; when no
\* removal is within the threshold the pruning loop ends.
C10_RemovesGlobalMinimum ==
    round_start.played =>
        LET P == round_start.configs
            limit == ScoreOf(P) + removal_threshold
        IN  IF \E c \in Range(P) : ScoreOf(Without(P, c)) <= limit
            THEN \E c \in Range(P) :
                    /\ zeroshot_configs = ListRemove(P, c)
                    /\ \A d \in Range(P) :
                          ScoreOf(Without(P, c)) <= ScoreOf(Without(P, d))
            ELSE /\ zeroshot_configs = P
                 /\ finished_removal

\* the parent datasets and the dataset-folds of the scorer
AllParents == {cv.unique_datasets_map[d] : d \in Range(cv.unique_datasets_fold)}

AllDatasetFolds == Range(cv.unique_datasets_fold)

\* train and test are disjoint and together hold every element of `all`
\* exactly once
SplitsExactly(train, test, all) ==
    /\ Range(train) \cap Range(test) = {}
    /\ Range(train) \cup Range(test) = all
    /\ Len(train) + Len(test) = Cardinality(all)

\* the fold assignment of a record
Assignment(r) == <<r.fold, r.X_train, r.X_test, r.X_train_fold, r.X_test_fold>>

RecordsSplit(records, parents, dataset_folds) ==
    /\ \A i \in DOMAIN records :
          /\ records[i].fold = i
          /\ SplitsExactly(records[i].X_train, records[i].X_test, parents)
          /\ SplitsExactly(records[i].X_train_fold, records[i].X_test_fold,
                           dataset_folds)
    /\ \A i, j \in DOMAIN records :
          i < j => Range(records[i].X_test) \cap Range(records[j].X_test) = {}

\* C8: in every fold result record X_train and X_test are disjoint and cover
\* the parent datasets; the X_test sets of the n_splits records of a run are
\* pairwise disjoint and cover every parent dataset exactly once; X_train_fold
\* and X_test_fold are disjoint and hold every dataset-fold of the scorer
\* exactly once; two runs give the same fold assignments.
C8_FoldsPartition ==
    LET parents == AllParents
        dataset_folds == AllDatasetFolds
    IN  /\ RecordsSplit(fold_results, parents, dataset_folds)
        /\ \A r \in DOMAIN runs :
              /\ Len(runs[r]) = cv.n_splits
              /\ RecordsSplit(runs[r], parents, dataset_folds)
              /\ UNION {Range(runs[r][i].X_test) : i \in DOMAIN runs[r]} = parents
              /\ [i \in DOMAIN runs[r] |-> Assignment(runs[r][i])]
                     = [i \in DOMAIN runs[1] |-> Assignment(runs[1][i])]

\* two completed runs of n_splits = 2 over 4 parents with 2 dataset-folds
\* each, split otherwise than into the two halves of the sorted parents
C8_Witness ==
    /\ Len(runs) = 2
    /\ cv.n_splits = 2
    /\ Len(cv.unique_datasets) = 4
    /\ Len(cv.unique_datasets_fold) = 8
    /\ runs[1][1].X_test = <<1, 3>>
    /\ runs[2][2].X_test = <<2, 4>>
    /\ Len(runs[1][1].X_test_fold) = 4

\* prune_zeroshot_configs(P) called by the caller on a portfolio P, with at
\* least the score of P taken
DirectPrune ==
    /\ entry = "prune"
    /\ pc \in {"prune", "returned"}

\* C11 as stated: every removal prune_zeroshot_configs(P) accepts, in any
\* round, leaves a portfolio scoring at most score(P) + removal_threshold, so
\* the returned portfolio scores at most score(P) + removal_threshold.
C11_WithinSlackOfInput ==
    DirectPrune =>
        ScoreOf(zeroshot_configs) <= ScoreOf(prune_arg) + removal_threshold

\* C11 amended: the slack is granted per round, on the score of the portfolio
\* at the start of that round: after n removals the portfolio scores at most
\* score(P) + n * removal_threshold, and so does the returned portfolio.
C11_SlackPerRemoval ==
    DirectPrune =>
        /\ ScoreOf(zeroshot_configs) <=
               ScoreOf(prune_arg)
                 + (Len(prune_arg) - Len(zeroshot_configs)) * removal_threshold
        /\ best_score = ScoreOf(zeroshot_configs)
        /\ pc = "returned" => result = zeroshot_configs

\* two removals, each worsening the score by the whole threshold
C11_Witness ==
    /\ DirectPrune
    /\ pc = "returned"
    /\ removal_threshold = 1
    /\ Len(prune_arg) - Len(result) = 2
    /\ ScoreOf(result) = ScoreOf(prune_arg) + 2

====
